---- MODULE Spec2Model ----
(***************************************************************************)
(* evian: the move-to-point motion command (MoveToPointFuture) polled by   *)
(* a cooperative executor on a Drivetrain made of an Arcade model and a    *)
(* tracking estimator.                                                     *)
(*                                                                         *)
(* Numbers.  f64 lengths and signals are fixed-point integers in           *)
(* thousandths (Milli per unit); Instants and Durations are integers in    *)
(* milliseconds; angles are integers in eighths of a turn (45 degrees),    *)
(* with sin and cos tabulated in thousandths.  Option<T> is a sequence:    *)
(* None is << >> and Some(v) is <<v>>.                                     *)
(***************************************************************************)
EXTENDS Integers, Sequences, FiniteSets, TLC

VARIABLES
    now,        \* the monotonic clock read by Instant::now(), in ms
    tracking,   \* drivetrain.tracking: position, heading, linear velocity
    model,      \* drivetrain.model: the Arcade model the commands go to
    borrow,     \* the task holding `&mut Drivetrain` (0: nobody)
    phase,      \* per task: "unborn", "live", "ready" (completed), "dropped"
    futs,       \* per task: the fields of its MoveToPointFuture
    last,       \* what the most recent call of poll did
    hist,       \* per task: history of its run
    calc        \* the last direct call of a function of the math or model crate

vars == <<now, tracking, model, borrow, phase, futs, last, hist, calc>>

\* ---------------------------------------------------------------- bounds

MaxTasks == 2
MaxStart == 1
MaxRun == 3
MaxMods == 1

\* ------------------------------------------------------------- constants

Milli == 1000
SleepMs == 5
HalfTurn == 4

MaxTime == (MaxStart + MaxRun) * SleepMs

TaskIds == 1..MaxTasks

None == << >>
Some(v) == <<v>>
IsSome(o) == o # << >>
Unwrap(o) == o[1]

\* The element of a one-element set: Only({e(x) : x \in {v}}) is e(v) with v
\* evaluated once.
Only(S) == CHOOSE x \in S : TRUE

\* ------------------------------------------------------------ f64 helpers

Abs(x) == IF x < 0 THEN -x ELSE x

Sign(x) == IF x < 0 THEN -1 ELSE 1

\* Division rounding toward zero (the fixed-point image of f64 division).
Div(a, b) == Sign(a) * Sign(b) * (Abs(a) \div Abs(b))

\* a * b of two fixed-point numbers.
Mul(a, b) == Div(a * b, Milli)

Max(a, b) == IF a > b THEN a ELSE b

Min(a, b) == IF a < b THEN a ELSE b

\* f64::sqrt on a fixed-point number below 4, rounded down: the root is found
\* to the nearest 50 thousandths first, then to the thousandth.
Sqrt(v) ==
    LET coarse == CHOOSE c \in 0..39 :
                    /\ (50 * c) * (50 * c) <= v * Milli
                    /\ v * Milli < (50 * (c + 1)) * (50 * (c + 1))
    IN CHOOSE r \in (50 * coarse)..(50 * coarse + 49) :
            r * r <= v * Milli /\ v * Milli < (r + 1) * (r + 1)

\* f64::sin and f64::cos of an angle in eighths of a turn, in thousandths.
sin(a) ==
    LET m == a % 8
    IN CASE m = 0 -> 0
         [] m = 1 -> 707
         [] m = 2 -> 1000
         [] m = 3 -> 707
         [] m = 4 -> 0
         [] m = 5 -> -707
         [] m = 6 -> -1000
         [] m = 7 -> -707

cos(a) == sin(a + 2)

\* ------------------------------------------------------------------ Vec2

Vec2Sub(a, b) == <<a[1] - b[1], a[2] - b[2]>>

\* Vec2::length, of a vector of whole units, in thousandths.
length(v) == Sqrt((v[1] * v[1] + v[2] * v[2]) * Milli)

\* Vec2::angle: atan2(y, x) in eighths of a turn, for the eight compass
\* directions and the zero vector (atan2(0, 0) = 0).
angle(v) ==
    LET x == v[1]
        y == v[2]
    IN CASE y = 0 /\ x >= 0 -> 0
         [] y > 0 /\ x = y -> 1
         [] y > 0 /\ x = 0 -> 2
         [] y > 0 /\ x = -y -> 3
         [] y = 0 /\ x < 0 -> 4
         [] y < 0 /\ x = y -> -3
         [] y < 0 /\ x = 0 -> -2
         [] y < 0 /\ x = -y -> -1

\* Angle::wrapped_half: (a + pi).rem_euclid(2 pi) - pi.
wrapped_half(a) == ((a + HalfTurn) % (2 * HalfTurn)) - HalfTurn

\* ------------------------------------------------------------ Tolerances

\* Tolerances: the instantaneous criteria of check.
Met(tol, error, velocity) ==
    /\ (IsSome(tol.error_tolerance) => Abs(error) <= Unwrap(tol.error_tolerance))
    /\ (IsSome(tol.velocity_tolerance)
            => Abs(velocity) <= Unwrap(tol.velocity_tolerance))

\* Tolerances::check at clock reading t: the result and the Tolerances after.
check(tol, error, velocity, t) ==
    LET met == Met(tol, error, velocity)
    IN IF ~IsSome(tol.duration) THEN [result |-> met, tolerances |-> tol]
       ELSE IF met
       THEN LET since == IF IsSome(tol.satisfied_since)
                         THEN Unwrap(tol.satisfied_since) ELSE t
            IN [result |-> t - since >= Unwrap(tol.duration),
                tolerances |-> [tol EXCEPT !.satisfied_since = Some(since)]]
       ELSE [result |-> FALSE,
             tolerances |-> [tol EXCEPT !.satisfied_since = None]]

\* ------------------------------------------------------------------- Pid

\* Pid::new(kp, ki, kd, integration_range).
PidNew(kp, ki, kd, integration_range) ==
    [kp |-> kp, ki |-> ki, kd |-> kd,
     integration_range |-> integration_range, output_limit |-> None,
     integral |-> 0, prev_error |-> 0]

\* f64::clamp(-limit, limit) when the limit is set.
Clamp(signal, output_limit) ==
    IF IsSome(output_limit)
    THEN Max(-Unwrap(output_limit), Min(Unwrap(output_limit), signal))
    ELSE signal

\* Pid's Feedback::update for an error, with dt in ms: the signal and the Pid
\* after.
update_error(pid, error, dt) ==
    LET integral == IF \/ ~IsSome(pid.integration_range)
                       \/ Abs(error) <= Unwrap(pid.integration_range)
                    THEN pid.integral + Div(error * dt, Milli)
                    ELSE pid.integral
        derivative == Div((error - pid.prev_error) * Milli, dt)
        signal == pid.kp * error + pid.ki * integral + pid.kd * derivative
    IN [signal |-> Clamp(signal, pid.output_limit),
        pid |-> [pid EXCEPT !.integral = integral, !.prev_error = error]]

\* Pid's Feedback::update.
update(pid, measurement, setpoint, dt) ==
    Only({update_error(pid, error, dt) : error \in {setpoint - measurement}})

set_output_limit(pid, output_limit) == [pid EXCEPT !.output_limit = output_limit]

\* ------------------------------------------------------------ desaturate

\* values.iter().map(|v| v.abs()).fold(0.0, f64::max).
largest_magnitude(values) ==
    LET mags == {Abs(values[i]) : i \in 1..Len(values)} \cup {0}
    IN CHOOSE m \in mags : \A n \in mags : n <= m

\* desaturate(values, max) on an array of fixed-point numbers.
desaturate_NoAbs(values, max) ==
    LET vals == {values[i] : i \in 1..Len(values)} \cup {0}
        largest == CHOOSE m \in vals : \A n \in vals : n <= m
    IN IF largest > max
       THEN [i \in 1..Len(values) |-> Div(values[i] * max, largest)]
       ELSE values

desaturate(values, max) ==
    LET largest == largest_magnitude(values)
    IN IF largest > max
       THEN [i \in 1..Len(values) |-> Div(values[i] * max, largest)]
       ELSE values

\* ---------------------------------------------------------- the Drivetrain

\* Tank::drive_tank on the model: the powers it was given and the Result it
\* returned (Err when ok = FALSE).
drive_tank(m, left, right, ok) ==
    [m EXCEPT !.tank = Append(@, <<left, right>>),
              !.result = IF ok THEN "Ok" ELSE "Err"]

\* Arcade::drive_arcade of a Tank model: the command it was given, the
\* drive_tank calls it made and the Result it returned.
drive_arcade_Raw(m, throttle, steer, ok) ==
    drive_tank([cmd |-> Some(<<throttle, steer>>), tank |-> << >>,
                result |-> "Ok"],
               throttle + steer, throttle - steer, ok)

drive_arcade(m, throttle, steer, ok) ==
    LET powers == desaturate(<<throttle + steer, throttle - steer>>, Milli)
    IN drive_tank([cmd |-> Some(<<throttle, steer>>), tank |-> << >>,
                   result |-> "Ok"],
                  powers[1], powers[2], ok)

\* `drivetrain: &'a mut Drivetrain<M, T>`: the exclusive borrow can be taken
\* only while nobody else holds one.
borrow_mut_AsShared(holder) == TRUE

borrow_mut(holder) == holder = 0

\* ----------------------------------------------------- MoveToPointFuture

\* What dropping a MoveToPointFuture does to the model: the struct has no Drop
\* impl, so its fields are dropped in place and nothing is sent.
drop_in_place_Stop(m) == drive_arcade(m, 0, 0, TRUE)

drop_in_place(m) == m

\* The future's fields as move_to_point hands them out.
MoveToPointFuture(target_point, timeout, tolerances, linear, lateral) ==
    [target_point |-> target_point,
     reverse |-> FALSE,
     timeout |-> timeout,
     tolerances |-> tolerances,
     linear_controller |-> linear,
     lateral_controller |-> lateral,
     state |-> None]

\* The place of a future that does not exist (not yet made, or dropped).
NoFut ==
    MoveToPointFuture(<<0, 0>>, None,
        [error_tolerance |-> None, velocity_tolerance |-> None,
         duration |-> None, satisfied_since |-> None],
        PidNew(0, 0, 0, None), PidNew(0, 0, 0, None))

\* poll's get_or_insert_with: the State, created at clock reading t if absent.
get_or_insert_state(state, t) ==
    IF IsSome(state) THEN state
    ELSE Some([sleep |-> t + SleepMs, start_time |-> t, prev_time |-> t])

\* Sleep::poll at clock reading t: whether the timer has fired.
sleep_ready(st, t) == t >= st.sleep

\* poll's termination test: Tolerances::check (at clock reading t), then, only
\* if it is false, the timeout against start_time.elapsed().
terminated_SincePrev(f, st, distance_error, velocity, t) ==
    LET c == check(f.tolerances, distance_error, velocity, t)
        timed == /\ ~c.result
                 /\ IsSome(f.timeout)
                 /\ t - st.prev_time > Unwrap(f.timeout)
    IN [done |-> c.result \/ timed,
        tolerances |-> c.tolerances,
        events |-> << <<"linear_velocity", velocity>>,
                      <<"check", distance_error, velocity, c.result>> >>
                   \o (IF ~c.result /\ IsSome(f.timeout)
                       THEN << <<"start_time.elapsed", t - st.prev_time>> >>
                       ELSE << >>)]

terminated_NoTimeout(f, st, distance_error, velocity, t) ==
    LET c == check(f.tolerances, distance_error, velocity, t)
    IN [done |-> c.result,
        tolerances |-> c.tolerances,
        events |-> << <<"linear_velocity", velocity>>,
                      <<"check", distance_error, velocity, c.result>> >>]

terminated_ZeroError(f, st, distance_error, velocity, t) ==
    LET c == check(f.tolerances, 0, velocity, t)
        timed == /\ ~c.result
                 /\ IsSome(f.timeout)
                 /\ t - st.start_time > Unwrap(f.timeout)
    IN [done |-> c.result \/ timed,
        tolerances |-> c.tolerances,
        events |-> << <<"linear_velocity", velocity>>,
                      <<"check", 0, velocity, c.result>> >>
                   \o (IF ~c.result /\ IsSome(f.timeout)
                       THEN << <<"start_time.elapsed", t - st.start_time>> >>
                       ELSE << >>)]

terminated_TimeoutFirst(f, st, distance_error, velocity, t) ==
    LET timed == IsSome(f.timeout) /\ t - st.start_time > Unwrap(f.timeout)
        c == check(f.tolerances, distance_error, velocity, t)
    IN IF timed
       THEN [done |-> TRUE,
             tolerances |-> f.tolerances,
             events |-> << <<"linear_velocity", velocity>>,
                           <<"start_time.elapsed", t - st.start_time>> >>]
       ELSE [done |-> c.result,
             tolerances |-> c.tolerances,
             events |-> << <<"linear_velocity", velocity>> >>
                        \o (IF IsSome(f.timeout)
                            THEN << <<"start_time.elapsed",
                                      t - st.start_time>> >>
                            ELSE << >>)
                        \o << <<"check", distance_error, velocity,
                                 c.result>> >>]

terminated_AtTimeout(f, st, distance_error, velocity, t) ==
    LET c == check(f.tolerances, distance_error, velocity, t)
        timed == /\ ~c.result
                 /\ IsSome(f.timeout)
                 /\ t - st.start_time >= Unwrap(f.timeout)
    IN [done |-> c.result \/ timed,
        tolerances |-> c.tolerances,
        events |-> << <<"linear_velocity", velocity>>,
                      <<"check", distance_error, velocity, c.result>> >>
                   \o (IF ~c.result /\ IsSome(f.timeout)
                       THEN << <<"start_time.elapsed", t - st.start_time>> >>
                       ELSE << >>)]

terminated(f, st, distance_error, velocity, t) ==
    LET c == check(f.tolerances, distance_error, velocity, t)
        timed == /\ ~c.result
                 /\ IsSome(f.timeout)
                 /\ t - st.start_time > Unwrap(f.timeout)
    IN [done |-> c.result \/ timed,
        tolerances |-> c.tolerances,
        events |-> << <<"linear_velocity", velocity>>,
                      <<"check", distance_error, velocity, c.result>> >>
                   \o (IF ~c.result /\ IsSome(f.timeout)
                       THEN << <<"start_time.elapsed", t - st.start_time>> >>
                       ELSE << >>)]

\* The terminating branch: the stop command, its Result dropped, then Ready.
stop_Silent(ok) == [events |-> << >>, result |-> "Ready"]

stop_Again(ok) ==
    [events |-> << <<"drive_arcade", 0, 0, ok>> >>, result |-> "Pending"]

stop_Propagate(ok) ==
    [events |-> << <<"drive_arcade", 0, 0, ok>> >>,
     result |-> IF ok THEN "Ready" ELSE "Err"]

stop(ok) == [events |-> << <<"drive_arcade", 0, 0, ok>> >>, result |-> "Ready"]

\* The cosine taper of the linear signal.
taper_Divide(signal, angle_error) ==
    IF cos(angle_error) = 0 THEN signal
    ELSE Div(signal * Milli, Abs(cos(angle_error)))

taper(signal, angle_error) == Mul(signal, Abs(cos(angle_error)))

\* The drive command of a tick that goes on, its Result dropped.
command_PerAxis(linear_output, angular_output, ok) ==
    << <<"drive_arcade", linear_output, 0, ok>>,
       <<"drive_arcade", 0, angular_output, ok>> >>

command(linear_output, angular_output, ok) ==
    << <<"drive_arcade", linear_output, angular_output, ok>> >>

\* The end of the branch of a tick that goes on: the drive command, the timer
\* re-armed and prev_time taken (clock reading t), then Pending.
pursue_drive_RearmFirst(f, st, projected_cte, distance_error, angle_error, angular, linear, dt, t, ok) ==
    [fut |-> [f EXCEPT !.lateral_controller = angular.pid,
                       !.linear_controller = linear.pid,
                       !.state = Some([sleep |-> t + SleepMs,
                                       start_time |-> st.start_time,
                                       prev_time |-> t])],
     events |-> << <<"angle_error", angle_error>>,
                   <<"lateral.update", projected_cte, 0, dt, angular.signal>>,
                   <<"linear.update", -distance_error, 0, dt, linear.signal>>,
                   <<"sleep", t + SleepMs>>, <<"prev_time", t>> >>
                \o command(taper(linear.signal, angle_error), angular.signal, ok)
                \o << <<"wake_by_ref">> >>,
     result |-> "Pending"]

pursue_drive_Restart(f, st, projected_cte, distance_error, angle_error, angular, linear, dt, t, ok) ==
    [fut |-> [f EXCEPT !.lateral_controller = angular.pid,
                       !.linear_controller = linear.pid,
                       !.state = Some([sleep |-> t + SleepMs,
                                       start_time |-> t,
                                       prev_time |-> t])],
     events |-> << <<"angle_error", angle_error>>,
                   <<"lateral.update", projected_cte, 0, dt, angular.signal>>,
                   <<"linear.update", -distance_error, 0, dt, linear.signal>> >>
                \o command(taper(linear.signal, angle_error), angular.signal, ok)
                \o << <<"sleep", t + SleepMs>>, <<"prev_time", t>>,
                      <<"wake_by_ref">> >>,
     result |-> "Pending"]

pursue_drive(f, st, projected_cte, distance_error, angle_error, angular, linear, dt, t, ok) ==
    [fut |-> [f EXCEPT !.lateral_controller = angular.pid,
                       !.linear_controller = linear.pid,
                       !.state = Some([sleep |-> t + SleepMs,
                                       start_time |-> st.start_time,
                                       prev_time |-> t])],
     events |-> << <<"angle_error", angle_error>>,
                   <<"lateral.update", projected_cte, 0, dt, angular.signal>>,
                   <<"linear.update", -distance_error, 0, dt, linear.signal>> >>
                \o command(taper(linear.signal, angle_error), angular.signal, ok)
                \o << <<"sleep", t + SleepMs>>, <<"prev_time", t>>,
                      <<"wake_by_ref">> >>,
     result |-> "Pending"]

\* The pursuit law for an angle error: the errors, negated when the target is
\* behind, given to the lateral and then the linear controller.
pursue_errors_Inclusive(f, st, distance, angle_error, dt, t, ok) ==
    LET behind == Abs(angle_error) >= HalfTurn \div 2
        projected_cte == IF behind THEN -Mul(distance, sin(angle_error))
                         ELSE Mul(distance, sin(angle_error))
        distance_error == IF behind THEN -distance ELSE distance
    IN Only({pursue_drive(f, st, projected_cte, distance_error, angle_error,
                          angular, linear, dt, t, ok) :
                angular \in {update(f.lateral_controller, projected_cte, 0, dt)},
                linear \in {update(f.linear_controller, -distance_error, 0, dt)}})

pursue_errors(f, st, distance, angle_error, dt, t, ok) ==
    LET behind == Abs(angle_error) > HalfTurn \div 2
        projected_cte == IF behind THEN -Mul(distance, sin(angle_error))
                         ELSE Mul(distance, sin(angle_error))
        distance_error == IF behind THEN -distance ELSE distance
    IN Only({pursue_drive(f, st, projected_cte, distance_error, angle_error,
                          angular, linear, dt, t, ok) :
                angular \in {update(f.lateral_controller, projected_cte, 0, dt)},
                linear \in {update(f.linear_controller, -distance_error, 0, dt)}})

\* The branch of a tick that goes on.
pursue(f, st, heading, local_target, distance, dt, t, ok) ==
    Only({pursue_errors(f, st, distance, angle_error, dt, t, ok) :
            angle_error \in {wrapped_half(heading - angle(local_target))}})

\* The branch taken once the tolerances and the timeout have been looked at:
\* stop and complete, or steer and go on.
poll_branch(f, st, trk, local_target, distance_error, term, t, ok) ==
    LET dt == t - st.prev_time
        head == << <<"sleep.poll", TRUE>>, <<"prev_time.elapsed", dt>>,
                   <<"position", trk.position>>, <<"heading", trk.heading>> >>
        f2 == [f EXCEPT !.tolerances = term.tolerances]
    IN IF term.done
       THEN [fut |-> f2, events |-> head \o term.events \o stop(ok).events,
             result |-> stop(ok).result, done |-> TRUE]
       ELSE LET p == pursue(f2, st, trk.heading, local_target, distance_error,
                            dt, t, ok)
            IN [fut |-> p.fut, events |-> head \o term.events \o p.events,
                result |-> p.result, done |-> FALSE]

\* A tick whose sleep has fired: the target in the robot's frame and its
\* distance, then the termination test.
poll_tick(f, st, trk, local_target, t, ok) ==
    Only({Only({poll_branch(f, st, trk, local_target, distance_error, term,
                            t, ok) :
                    term \in {terminated(f, st, distance_error,
                                         trk.linear_velocity, t)}}) :
            distance_error \in {length(local_target)}})

\* The poll once the state exists: pending at once while the sleep has not
\* fired, a tick otherwise.
poll_ready_HoldStill(f, state, trk, t, ok) ==
    IF ~sleep_ready(Unwrap(state), t)
    THEN [fut |-> [f EXCEPT !.state = state],
          events |-> << <<"sleep.poll", FALSE>>,
                        <<"drive_arcade", 0, 0, ok>> >>,
          result |-> "Pending", done |-> FALSE]
    ELSE Only({poll_tick([f EXCEPT !.state = state], Unwrap(state), trk,
                         local_target, t, ok) :
                 local_target \in {Vec2Sub(f.target_point, trk.position)}})

poll_ready(f, state, trk, t, ok) ==
    IF ~sleep_ready(Unwrap(state), t)
    THEN [fut |-> [f EXCEPT !.state = state],
          events |-> << <<"sleep.poll", FALSE>> >>,
          result |-> "Pending", done |-> FALSE]
    ELSE Only({poll_tick([f EXCEPT !.state = state], Unwrap(state), trk,
                         local_target, t, ok) :
                 local_target \in {Vec2Sub(f.target_point, trk.position)}})

\* One call of Future::poll on future f at clock reading t (a call takes less
\* than the clock's millisecond), with trk what the tracking reports and ok
\* whether the drive command succeeds: the future after, what the call did in
\* order, what it returned, and whether it took the terminating branch.
poll_body(f, trk, t, ok) ==
    Only({poll_ready(f, state, trk, t, ok) :
            state \in {get_or_insert_state(f.state, t)}})

\* -------------------------------------------------------------- the inputs

Targets == {<<1, 1>>}

\* What the tracking estimator may report: position, heading, linear velocity.
\* Seen from the target <<1, 1>>: distance 1.414 at an angle error of 1/8 turn;
\* distance 1, at rest, at the quarter turn; distance 1.414, moving, at 3/8 (the
\* target behind); distance 1, moving, dead ahead.
Poses ==
    {[position |-> p[1], heading |-> p[2], linear_velocity |-> p[3]] :
        p \in {<< <<0, 0>>, 2, 0 >>,
               << <<1, 0>>, 4, 0 >>,
               << <<0, 0>>, 4, 1000 >>,
               << <<1, 0>>, 2, 1000 >>}}

Timeouts == {None, Some(10)}

ToleranceSets ==
    {[error_tolerance |-> Some(1000), velocity_tolerance |-> Some(250),
      duration |-> d, satisfied_since |-> None] : d \in {None, Some(5)}}

\* The linear and the lateral controller: the example's all-zero gains, or
\* gains that give signals.
Controllers ==
    {<<PidNew(0, 0, 0, Some(0)), PidNew(0, 0, 0, Some(0))>>,
     <<PidNew(2, 0, 1, Some(0)), PidNew(1, 0, 0, Some(0))>>}

OutputLimits == {500}

\* What the modifiers are called with.
ModTimeouts == {5}

ModErrorTolerances == {1500}

ModVelocityTolerances == {1000}

ModDurations == {10}

\* The arrays and the maximum desaturate is called with (the doctest's among
\* them), and the throttle and steer drive_arcade is called with.
Magnitudes == {-4000, -1200, 0, 500, 800, 1000, 3000}

Arrays == {<<a, b, c>> : a \in Magnitudes, b \in Magnitudes, c \in Magnitudes}

\* max is a magnitude: with a negative max the scaling factor is negative and
\* an all-zero array is divided by zero.
Maxes == {0, 500, 1000, 2000}

Signals == {-2000, -1000, -300, 0, 300, 1000, 2000}

\* ----------------------------------------------------------- the machine

IsDrive(e) == e[1] = "drive_arcade"

IsZeroDrive(e) == e[1] = "drive_arcade" /\ e[2] = 0 /\ e[3] = 0

\* The drive_arcade calls of a poll, made on the model in order: the model is
\* left as the last of them leaves it.
Drive(m, events) ==
    LET drives == SelectSeq(events, IsDrive)
    IN IF drives = << >> THEN m
       ELSE drive_arcade(m, drives[Len(drives)][2], drives[Len(drives)][3],
                         drives[Len(drives)][4])

\* The history of a task's run: when the future was made and first polled,
\* how many stop commands its terminating ticks issued, whether a tick that
\* went on issued (0, 0), since when the tolerance criteria have held on every
\* tick, whether such a span was ever broken, how many modifiers were called
\* on the future, and whether one was called after the first poll.
NoHist ==
    [made |-> None, first_poll |-> None, stops |-> 0, zero_pending |-> FALSE,
     met_since |-> None, broken |-> FALSE, mods |-> 0, mod_polled |-> FALSE]

\* No direct call yet.
NoCalc ==
    [op |-> "none", values |-> << >>, max |-> 0, result |-> << >>,
     again |-> << >>, ok |-> TRUE]

Init ==
    /\ now = 0
    /\ tracking = [position |-> <<0, 0>>, heading |-> 2, linear_velocity |-> 0]
    /\ model = [cmd |-> None, tank |-> << >>, result |-> "Ok"]
    /\ borrow = 0
    /\ phase = [id \in TaskIds |-> "unborn"]
    /\ futs = [id \in TaskIds |-> NoFut]
    /\ last = [task |-> 0, fired |-> FALSE, result |-> "None", events |-> << >>,
               at |-> 0, first_poll |-> 0, timeout |-> None, limit |-> None,
               criteria |-> [NoFut.tolerances EXCEPT !.satisfied_since = None]]
    /\ hist = [id \in TaskIds |-> NoHist]
    /\ calc = NoCalc

\* Seeking::move_to_point(drivetrain, target): a new future borrows the
\* drivetrain exclusively.  Tasks are numbered in the order they are made.
move_to_point(id) ==
    /\ phase[id] = "unborn"
    /\ \A other \in TaskIds : other < id => phase[other] # "unborn"
    /\ borrow_mut(borrow)
    /\ now <= MaxStart * SleepMs
    /\ \E target \in Targets, timeout \in Timeouts, tol \in ToleranceSets,
          c \in Controllers :
            futs' = [futs EXCEPT ![id] =
                        MoveToPointFuture(target, timeout, tol, c[1], c[2])]
    /\ phase' = [phase EXCEPT ![id] = "live"]
    /\ borrow' = id
    /\ hist' = [hist EXCEPT ![id].made = Some(now)]
    /\ UNCHANGED <<now, tracking, model, last, calc>>

\* MoveToPointFuture::with_linear_output_limit(limit).
with_linear_output_limit(id) ==
    /\ phase[id] = "live"
    /\ \E limit \in OutputLimits :
        /\ futs[id].linear_controller.output_limit # Some(limit)
        /\ futs' = [futs EXCEPT ![id].linear_controller =
                        set_output_limit(@, Some(limit))]
    /\ UNCHANGED <<now, tracking, model, borrow, phase, last, hist, calc>>

\* Future::poll of task id by the executor.  A completed future is not polled
\* again.  pose is the estimate the tracking task has reached by the time of
\* the call; the drive command of the call succeeds (ok) or fails.
poll(id) ==
    /\ phase[id] = "live"
    /\ UNCHANGED <<now, borrow, calc>>
    /\ \E pose \in Poses, ok \in BOOLEAN :
      /\ tracking' = pose
      /\ \E o \in {poll_body(futs[id], pose, now, ok)},
            distance \in {length(Vec2Sub(futs[id].target_point,
                                         pose.position))} :
         \E met \in {Met(futs[id].tolerances, distance,
                         pose.linear_velocity)},
            zeros \in {Len(SelectSeq(o.events, IsZeroDrive))} :
           LET f == futs[id]
               fired == o.events[1][2]
               h == hist[id]
           IN /\ (~fired => ok /\ pose = tracking)
              /\ futs' = [futs EXCEPT ![id] = o.fut]
              /\ phase' = [phase EXCEPT ![id] =
                              IF o.result = "Ready" THEN "ready" ELSE "live"]
              /\ model' = Drive(model, o.events)
              /\ last' = [task |-> id, fired |-> fired, result |-> o.result,
                          events |-> o.events, at |-> now,
                          first_poll |-> IF IsSome(h.first_poll)
                                         THEN Unwrap(h.first_poll) ELSE now,
                          timeout |-> f.timeout,
                          limit |-> f.linear_controller.output_limit,
                          criteria |-> [f.tolerances EXCEPT
                                            !.satisfied_since = None]]
              /\ hist' = [hist EXCEPT ![id] =
                    [made |-> h.made,
                     first_poll |-> IF IsSome(h.first_poll) THEN h.first_poll
                                    ELSE Some(now),
                     stops |-> h.stops + (IF o.done THEN zeros ELSE 0),
                     zero_pending |-> h.zero_pending \/ (~o.done /\ zeros > 0),
                     met_since |-> IF ~fired THEN h.met_since
                                   ELSE IF ~met THEN None
                                   ELSE IF IsSome(h.met_since) THEN h.met_since
                                   ELSE Some(now),
                     broken |-> h.broken
                                \/ (fired /\ ~met /\ IsSome(h.met_since)),
                     mods |-> h.mods,
                     mod_polled |-> h.mod_polled]]

\* The future is dropped (cancelled, or let go after it completed): there is
\* no Drop impl, so only the borrow ends.
drop(id) ==
    /\ phase[id] \in {"live", "ready"}
    /\ phase' = [phase EXCEPT ![id] = "dropped"]
    /\ futs' = [futs EXCEPT ![id] = NoFut]
    /\ borrow' = IF borrow = id THEN 0 ELSE borrow
    /\ model' = drop_in_place(model)
    /\ hist' = [hist EXCEPT ![id] = NoHist]
    /\ UNCHANGED <<now, tracking, last, calc>>

\* Time passes, one timer period at a time.  A task is first polled within
\* MaxStart periods of the start, and the clock stops after MaxTime.
advance ==
    /\ now < MaxTime
    /\ \A id \in TaskIds :
        phase[id] = "live" /\ ~IsSome(futs[id].state) => now < MaxStart * SleepMs
    /\ now' = now + SleepMs
    /\ UNCHANGED <<tracking, model, borrow, phase, futs, last, hist, calc>>

Next ==
    \/ \E id \in TaskIds : move_to_point(id)
    \/ \E id \in TaskIds : with_linear_output_limit(id)
    \/ \E id \in TaskIds : poll(id)
    \/ \E id \in TaskIds : drop(id)
    \/ advance

Spec == Init /\ [][Next]_vars

\* A modifier is called on a live future, at most MaxMods times in a run; the
\* history notes the call, and whether the future had been polled.
modified(id) ==
    /\ phase[id] = "live"
    /\ hist[id].mods < MaxMods
    /\ hist' = [hist EXCEPT ![id].mods = @ + 1,
                            ![id].mod_polled = @ \/ IsSome(futs[id].state)]
    /\ UNCHANGED <<now, tracking, model, borrow, phase, last, calc>>

\* MoveToPointFuture::reverse().
reverse(id) ==
    /\ modified(id)
    /\ ~futs[id].reverse
    /\ futs' = [futs EXCEPT ![id].reverse = TRUE]

\* MoveToPointFuture::with_timeout(timeout).
with_timeout_Restart(id) ==
    /\ modified(id)
    /\ \E timeout \in ModTimeouts :
        /\ futs[id].timeout # Some(timeout)
        /\ futs' = [futs EXCEPT ![id].timeout = Some(timeout),
                                ![id].state = None]

with_timeout(id) ==
    /\ modified(id)
    /\ \E timeout \in ModTimeouts :
        /\ futs[id].timeout # Some(timeout)
        /\ futs' = [futs EXCEPT ![id].timeout = Some(timeout)]

\* MoveToPointFuture::without_timeout().
without_timeout(id) ==
    /\ modified(id)
    /\ IsSome(futs[id].timeout)
    /\ futs' = [futs EXCEPT ![id].timeout = None]

\* MoveToPointFuture::with_error_tolerance(tolerance).
with_error_tolerance(id) ==
    /\ modified(id)
    /\ \E tolerance \in ModErrorTolerances :
        /\ futs[id].tolerances.error_tolerance # Some(tolerance)
        /\ futs' = [futs EXCEPT ![id].tolerances.error_tolerance =
                                    Some(tolerance)]

\* MoveToPointFuture::without_error_tolerance().
without_error_tolerance(id) ==
    /\ modified(id)
    /\ IsSome(futs[id].tolerances.error_tolerance)
    /\ futs' = [futs EXCEPT ![id].tolerances.error_tolerance = None]

\* MoveToPointFuture::with_velocity_tolerance(tolerance).
with_velocity_tolerance(id) ==
    /\ modified(id)
    /\ \E tolerance \in ModVelocityTolerances :
        /\ futs[id].tolerances.velocity_tolerance # Some(tolerance)
        /\ futs' = [futs EXCEPT ![id].tolerances.velocity_tolerance =
                                    Some(tolerance)]

\* MoveToPointFuture::without_velocity_tolerance().
without_velocity_tolerance(id) ==
    /\ modified(id)
    /\ IsSome(futs[id].tolerances.velocity_tolerance)
    /\ futs' = [futs EXCEPT ![id].tolerances.velocity_tolerance = None]

\* MoveToPointFuture::with_tolerance_duration(duration).
with_tolerance_duration(id) ==
    /\ modified(id)
    /\ \E duration \in ModDurations :
        /\ futs[id].tolerances.duration # Some(duration)
        /\ futs' = [futs EXCEPT ![id].tolerances.duration = Some(duration)]

\* MoveToPointFuture::without_tolerance_duration().
without_tolerance_duration(id) ==
    /\ modified(id)
    /\ IsSome(futs[id].tolerances.duration)
    /\ futs' = [futs EXCEPT ![id].tolerances.duration = None]

\* The first task alone, with the modifiers called on its future between
\* polls.
ModNext ==
    \/ move_to_point(1)
    \/ poll(1)
    \/ drop(1)
    \/ advance
    \/ reverse(1)
    \/ with_timeout(1)
    \/ without_timeout(1)
    \/ with_error_tolerance(1)
    \/ without_error_tolerance(1)
    \/ with_velocity_tolerance(1)
    \/ without_velocity_tolerance(1)
    \/ with_tolerance_duration(1)
    \/ without_tolerance_duration(1)

ModSpec == Init /\ [][ModNext]_vars

\* desaturate called directly, and once more on its result.  The functions
\* called directly are pure: one call in a behaviour shows all they do.
call_desaturate ==
    /\ calc = NoCalc
    /\ \E values \in Arrays, max \in Maxes :
        calc' = [op |-> "desaturate", values |-> values, max |-> max,
                 result |-> desaturate(values, max),
                 again |-> desaturate(desaturate(values, max), max),
                 ok |-> TRUE]
    /\ UNCHANGED <<now, tracking, model, borrow, phase, futs, last, hist>>

\* drive_arcade called directly on a model: the result is the model after.
call_drive_arcade ==
    /\ calc = NoCalc
    /\ \E throttle \in Signals, steer \in Signals, ok \in BOOLEAN :
        calc' = [op |-> "drive_arcade", values |-> <<throttle, steer>>,
                 max |-> Milli,
                 result |-> drive_arcade(model, throttle, steer, ok),
                 again |-> << >>, ok |-> ok]
    /\ UNCHANGED <<now, tracking, model, borrow, phase, futs, last, hist>>

MathNext == call_desaturate \/ call_drive_arcade

MathSpec == Init /\ [][MathNext]_vars

\* A task the executor has reason to poll: it was just spawned, or the timer it
\* waits on has fired (a tick ends by waking the task again).
runnable(id) ==
    /\ phase[id] = "live"
    /\ \/ ~IsSome(futs[id].state)
       \/ sleep_ready(Unwrap(futs[id].state), now)

\* Time passes, and the executor does not leave a runnable task unpolled for
\* ever.  poll(id) is enabled wherever the task is runnable, so the condition
\* on poll is no stronger than WF_vars(poll(id)).
LiveSpec ==
    /\ Init
    /\ [][Next]_vars
    /\ WF_vars(advance)
    /\ \A id \in TaskIds :
        []<>(~runnable(id)) \/ []<>(<<poll(id)>>_vars)

\* ---------------------------------------------------- the last call of poll

\* The entries of the last call's record with the given name.
LastEvents(name) == SelectSeq(last.events, LAMBDA e : e[1] = name)

LastDrives == SelectSeq(last.events, IsDrive)

\* Whether Tolerances::check returned true on the last call.
LastCheck ==
    /\ LastEvents("check") # << >>
    /\ LastEvents("check")[1][4]

\* Whether, on the last call, the time since the task's first poll exceeded the
\* timeout the future had.
LastTimedOut ==
    /\ IsSome(last.timeout)
    /\ last.at - last.first_poll > Unwrap(last.timeout)

Active == {id \in TaskIds : phase[id] \in {"live", "ready"}}

\* The names of the steps the last call made, in order.
LastSteps == [i \in 1..Len(last.events) |-> last.events[i][1]]

\* ------------------------------------------------------------------ claims

\* C1: on a tick where Tolerances::check is true or the timeout is exceeded,
\* the only drive command is the stop command (0, 0) and poll returns Ready on
\* that tick; whenever poll returns Ready, the command last written to the
\* model is (0, 0).
C1_StopThenReady ==
    /\ (last.fired /\ (LastCheck \/ LastTimedOut)
            => /\ last.result = "Ready"
               /\ Len(LastDrives) = 1
               /\ IsZeroDrive(LastDrives[1]))
    /\ (last.result = "Ready"
            => /\ LastDrives # << >>
               /\ IsZeroDrive(LastDrives[Len(LastDrives)])
               /\ model.cmd = Some(<<0, 0>>))

\* C1 witness: a tick that completed on the timeout alone, with the stop
\* command in effect on the model.
C1_Witness ==
    /\ last.fired
    /\ last.result = "Ready"
    /\ LastTimedOut
    /\ ~LastCheck
    /\ model.cmd = Some(<<0, 0>>)

\* C2: every poll in which the timer has fired calls drive_arcade exactly
\* once: with (0, 0) when it returns Ready, with the tapered linear signal and
\* the lateral signal when it returns Pending; a poll in which the timer has
\* not fired calls it not at all.
C2_OneDrivePerTick ==
    /\ (last.task # 0 /\ ~last.fired => LastDrives = << >>)
    /\ (last.fired
            => /\ Len(LastDrives) = 1
               /\ (last.result = "Ready" => IsZeroDrive(LastDrives[1]))
               /\ (last.result = "Pending"
                    => /\ Len(LastEvents("linear.update")) = 1
                       /\ Len(LastEvents("lateral.update")) = 1
                       /\ LastDrives[1][3] = LastEvents("lateral.update")[1][5]
                       /\ Abs(LastDrives[1][2])
                            <= Abs(LastEvents("linear.update")[1][5])))

\* C2 witness: a tick that went on and issued a command with both signals
\* nonzero.
C2_Witness ==
    /\ last.fired
    /\ last.result = "Pending"
    /\ Len(LastDrives) = 1
    /\ LastDrives[1][2] # 0
    /\ LastDrives[1][3] # 0

\* C3: the State is absent until the first poll and its start_time is the
\* time of that first poll; a tick on which the time since the first poll
\* exceeds the timeout returns Ready after the stop command alone, whatever
\* the distance error; poll never returns anything but Pending or Ready.
C3_TimeoutFromFirstPoll ==
    /\ \A id \in TaskIds :
        phase[id] = "live" =>
            /\ IsSome(futs[id].state) <=> IsSome(hist[id].first_poll)
            /\ IsSome(futs[id].state) =>
                Unwrap(futs[id].state).start_time = Unwrap(hist[id].first_poll)
    /\ (last.fired /\ LastTimedOut
            => /\ last.result = "Ready"
               /\ Len(LastDrives) = 1
               /\ IsZeroDrive(LastDrives[1]))
    /\ last.result \in {"None", "Pending", "Ready"}

\* C3 witness: a task first polled after it was made has completed on the
\* timeout while Tolerances::check was false.
C3_Witness ==
    /\ last.fired
    /\ last.result = "Ready"
    /\ LastTimedOut
    /\ ~LastCheck
    /\ phase[last.task] = "ready"
    /\ Unwrap(hist[last.task].made) < last.first_poll

\* C4: under LiveSpec (time passes and a task whose timer has fired is
\* polled), a task with timeout = Some(t) does not stay unfinished for ever:
\* it completes, unless it is dropped first.
C4_TimeoutCompletes ==
    \A id \in TaskIds :
        (phase[id] = "live" /\ IsSome(futs[id].timeout)) ~> (phase[id] # "live")

\* C4 witness: a task has completed on the timeout on a tick where the
\* tolerance criteria did not hold.
C4_Witness ==
    /\ last.result = "Ready"
    /\ phase[last.task] = "ready"
    /\ IsSome(futs[last.task].timeout)
    /\ ~LastCheck
    /\ hist[last.task].met_since = None

\* C5 as stated: no tick before completion issues the command (0, 0).
C5_NoZeroBeforeCompletion ==
    \A id \in TaskIds : ~hist[id].zero_pending

\* C5 as amended: the stop command of the terminating branch is issued
\* exactly once over a run that completes, on the completing tick, and not at
\* all before; a tick that goes on issues (0, 0) exactly when the lateral
\* signal and the tapered linear signal are both zero.
C5_OneStopCommand ==
    /\ \A id \in TaskIds :
        /\ phase[id] = "live" => hist[id].stops = 0
        /\ phase[id] = "ready" => hist[id].stops = 1
    /\ (last.fired /\ last.result = "Pending" /\ Len(LastDrives) = 1
            => (IsZeroDrive(LastDrives[1])
                    <=> /\ LastEvents("lateral.update")[1][5] = 0
                        /\ LastDrives[1][2] = 0))
    /\ (last.fired /\ last.result = "Pending" /\ phase[last.task] = "live"
            /\ IsZeroDrive(LastDrives[1])
            => hist[last.task].zero_pending)

\* C5 witness: a run that completed with one stop command after a tick that
\* went on had issued (0, 0).
C5_Witness ==
    \E id \in TaskIds :
        /\ phase[id] = "ready"
        /\ hist[id].stops = 1
        /\ hist[id].zero_pending

\* C6: dropping a future that has not completed issues no drive command: the
\* model, with the command last written to it, is left as it was.
C6_DropIssuesNothing ==
    [][\A id \in TaskIds :
            phase[id] = "live" /\ phase'[id] = "dropped" => model' = model]_vars

\* C6 witness: a task was dropped after a tick that went on, and the nonzero
\* command of that tick is still the one the model has.
C6_Witness ==
    /\ last.task # 0
    /\ phase[last.task] = "dropped"
    /\ last.fired
    /\ last.result = "Pending"
    /\ IsSome(model.cmd)
    /\ Unwrap(model.cmd) # <<0, 0>>
    /\ Unwrap(model.cmd) = <<LastDrives[1][2], LastDrives[1][3]>>

\* C7: at most one future that has been made and not dropped exists at a
\* time, and it is the one holding the borrow of the drivetrain, so every
\* poll is made by the holder.
C7_OneTaskPerDrivetrain ==
    /\ Cardinality(Active) <= 1
    /\ \A id \in Active : borrow = id
    /\ (borrow # 0 => borrow \in Active)

\* C7 witness: a second task is ticking on the drivetrain after the first
\* was dropped.
C7_Witness ==
    /\ phase[1] = "dropped"
    /\ phase[2] = "live"
    /\ last.task = 2
    /\ last.fired

\* C8: a tick whose drive command failed ends as the same tick with the
\* command succeeding would: Ready if it was the stop command; otherwise
\* Pending, with the timer re-armed, prev_time taken and both controllers
\* updated; never anything else.
C8_FailedDriveDiscarded ==
    (last.fired /\ LastDrives # << >> /\ ~LastDrives[1][4]) =>
        /\ model.result = "Err"
        /\ IF LastCheck \/ LastTimedOut
           THEN /\ last.result = "Ready"
                /\ phase[last.task] \in {"ready", "dropped"}
           ELSE /\ last.result = "Pending"
                /\ phase[last.task] \in {"live", "dropped"}
                /\ phase[last.task] = "live" =>
                    LET f == futs[last.task]
                    IN /\ f.state = Some([sleep |-> last.at + SleepMs,
                                          start_time |-> last.first_poll,
                                          prev_time |-> last.at])
                       /\ f.linear_controller.prev_error
                            = -LastEvents("linear.update")[1][2]
                       /\ f.lateral_controller.prev_error
                            = -LastEvents("lateral.update")[1][2]

\* C8 witness: the stop command failed and the task completed all the same.
C8_Witness ==
    /\ last.fired
    /\ last.result = "Ready"
    /\ phase[last.task] = "ready"
    /\ ~LastDrives[1][4]
    /\ model.result = "Err"

\* C9: with duration = Some(d), Tolerances::check is true on a tick only if
\* the criteria have held on every tick since a tick at least d earlier, so a
\* task without timeout completes only then: a violating tick starts the
\* span afresh.
C9_ContiguousSpan ==
    \A id \in TaskIds :
        (/\ last.task = id
         /\ last.fired
         /\ phase[id] \in {"live", "ready"}
         /\ IsSome(futs[id].tolerances.duration)
         /\ LastCheck \/ (last.result = "Ready" /\ ~IsSome(last.timeout)))
        => /\ IsSome(hist[id].met_since)
           /\ last.at - Unwrap(hist[id].met_since)
                >= Unwrap(futs[id].tolerances.duration)

\* C9 witness: a task without timeout completed on a span that began after a
\* violating tick had broken an earlier one.
C9_Witness ==
    \E id \in TaskIds :
        /\ last.task = id
        /\ phase[id] = "ready"
        /\ ~IsSome(last.timeout)
        /\ IsSome(futs[id].tolerances.duration)
        /\ hist[id].broken
        /\ LastCheck

\* C10: on a tick of a task whose linear Pid has output_limit = Some(l), the
\* throttle of every drive command has magnitude at most l.
C10_LinearSignalWithinLimit ==
    (last.fired /\ IsSome(last.limit)) =>
        \A i \in 1..Len(LastDrives) :
            Abs(LastDrives[i][2]) <= Unwrap(last.limit)

\* C10 witness: the linear Pid's output was clamped to the limit and the
\* taper brought the throttle below it, but not to zero.
C10_Witness ==
    /\ last.fired
    /\ last.result = "Pending"
    /\ IsSome(last.limit)
    /\ Abs(LastEvents("linear.update")[1][5]) = Unwrap(last.limit)
    /\ Abs(LastDrives[1][2]) < Unwrap(last.limit)
    /\ LastDrives[1][2] # 0

\* C11: on a tick that goes on, with d the distance to the target and a the
\* angle error: if |a| > pi/2 the lateral controller measures -d * sin(a) and
\* the linear controller measures +d; if |a| <= pi/2, the boundary included,
\* the lateral controller measures d * sin(a) and the linear controller -d.
C11_BehindNegatesBoth ==
    (last.fired /\ last.result = "Pending") =>
        LET a == LastEvents("angle_error")[1][2]
            d == LastEvents("check")[1][2]
            lateral == LastEvents("lateral.update")[1][2]
            linear == LastEvents("linear.update")[1][2]
        IN /\ d >= 0
           /\ IF Abs(a) > HalfTurn \div 2
              THEN lateral = -Mul(d, sin(a)) /\ linear = d
              ELSE lateral = Mul(d, sin(a)) /\ linear = -d

\* C11 witness: a tick that went on with the target behind (3/8 of a turn
\* off): both measurements are negated and neither is zero.
C11_Witness ==
    /\ last.fired
    /\ last.result = "Pending"
    /\ Abs(LastEvents("angle_error")[1][2]) > HalfTurn \div 2
    /\ LastEvents("linear.update")[1][2] > 0
    /\ LastEvents("lateral.update")[1][2]
            = -Mul(LastEvents("check")[1][2],
                   sin(LastEvents("angle_error")[1][2]))
    /\ LastEvents("lateral.update")[1][2] # 0

\* C12 as stated: after reverse(), a tick issues a drive command that differs
\* from the one the same future without reverse() issues for the same pose,
\* whenever the latter goes on with a nonzero linear signal.
C12_ReversedDiffers ==
    \A id \in TaskIds :
        (/\ phase[id] = "live"
         /\ futs[id].reverse
         /\ IsSome(futs[id].state)
         /\ sleep_ready(Unwrap(futs[id].state), now))
        => \A pose \in Poses :
            LET forward == poll_body([futs[id] EXCEPT !.reverse = FALSE],
                                     pose, now, TRUE)
                reversed == poll_body(futs[id], pose, now, TRUE)
                drives == SelectSeq(forward.events, IsDrive)
            IN (~forward.done /\ drives[1][2] # 0)
                => SelectSeq(reversed.events, IsDrive) # drives

C14_ModifierFrame ==
    /\ [](\A id \in TaskIds :
            (phase[id] = "live" /\ IsSome(futs[id].state))
                => Unwrap(futs[id].state).start_time
                        = Unwrap(hist[id].first_poll))
    /\ [](last.fired =>
            /\ (LastTimedOut => last.result = "Ready")
            /\ (~IsSome(last.criteria.duration)
                    => (LastCheck <=> Met(last.criteria,
                                          LastEvents("check")[1][2],
                                          LastEvents("check")[1][3])))
            /\ (last.result = "Ready" <=> (LastCheck \/ LastTimedOut)))
    /\ [][\A id \in TaskIds :
            (phase[id] = "live" /\ phase'[id] = "live"
                /\ hist'[id].mods # hist[id].mods)
            => LET f == futs[id]
                   g == futs'[id]
                   changed ==
                     {k \in {"reverse", "timeout"} : f[k] # g[k]}
                     \cup {k \in {"error_tolerance", "velocity_tolerance",
                                   "duration"} :
                                f.tolerances[k] # g.tolerances[k]}
               IN /\ Cardinality(changed) = 1
                  /\ g.target_point = f.target_point
                  /\ g.state = f.state
                  /\ g.tolerances.satisfied_since
                        = f.tolerances.satisfied_since
                  /\ g.linear_controller = f.linear_controller
                  /\ g.lateral_controller = f.lateral_controller
                  /\ model' = model
                  /\ last' = last]_vars

\* C14 witness: with_timeout was called after the first poll on a future
\* made without timeout, and a later tick completed on that timeout, counted
\* from the first poll, while the criteria did not hold.
C14_Witness ==
    /\ last.fired
    /\ last.result = "Ready"
    /\ ~LastCheck
    /\ last.timeout \in {Some(t) : t \in ModTimeouts}
    /\ last.at - last.first_poll > Unwrap(last.timeout)
    /\ phase[last.task] = "ready"
    /\ hist[last.task].mod_polled

\* C15: a tick makes its steps in the order: position, heading and linear
\* velocity read, termination check, then either the stop command, or the
\* lateral and linear controller updates, the drive command and the timer
\* re-armed; and the distance and the angle error the check and the
\* controllers are given come from the position and heading the tracking
\* reports on that same tick.
C15_TickOrder ==
    last.fired =>
        LET timed == IF LastEvents("start_time.elapsed") = << >> THEN << >>
                     ELSE <<"start_time.elapsed">>
            reads == <<"sleep.poll", "prev_time.elapsed", "position",
                       "heading", "linear_velocity", "check">> \o timed
        IN /\ IF last.result = "Ready"
              THEN LastSteps = reads \o <<"drive_arcade">>
              ELSE LastSteps = reads \o
                        <<"angle_error", "lateral.update", "linear.update",
                          "drive_arcade", "sleep", "prev_time",
                          "wake_by_ref">>
           /\ LastEvents("position")[1][2] = tracking.position
           /\ LastEvents("heading")[1][2] = tracking.heading
           /\ LastEvents("linear_velocity")[1][2] = tracking.linear_velocity
           /\ phase[last.task] \in {"live", "ready"} =>
                LET local_target == Vec2Sub(futs[last.task].target_point,
                                            tracking.position)
                    d == length(local_target)
                    a == wrapped_half(tracking.heading - angle(local_target))
                IN /\ LastEvents("check")[1][2] = d
                   /\ last.result = "Pending" =>
                        /\ LastEvents("angle_error")[1][2] = a
                        /\ Abs(LastEvents("linear.update")[1][2]) = d
                        /\ Abs(LastEvents("lateral.update")[1][2])
                                = Abs(Mul(d, sin(a)))

\* C15 witness: a second or later tick went on with both controllers fed
\* nonzero measurements, from a pose that differs from the one the task
\* started with.
C15_Witness ==
    /\ last.fired
    /\ last.result = "Pending"
    /\ phase[last.task] = "live"
    /\ last.at - last.first_poll > SleepMs
    /\ tracking.position # <<0, 0>>
    /\ LastEvents("lateral.update")[1][2] # 0
    /\ LastEvents("linear.update")[1][2] # 0

\* C16: every tick calls Tolerances::check exactly once, a tick on which the
\* timeout has expired included, and before the timeout is looked at; it is
\* given the distance to the target, which is >= 0 and not the negated
\* distance the linear controller is fed when the target is behind, and the
\* linear velocity the tracking reports.  A poll whose timer has not fired
\* does not call it.
C16_CheckOncePerTick ==
    /\ (~last.fired => LastEvents("check") = << >>)
    /\ (last.fired =>
            /\ Len(LastEvents("check")) = 1
            /\ LastEvents("check")[1][2] >= 0
            /\ LastEvents("check")[1][3] = tracking.linear_velocity
            /\ (phase[last.task] \in {"live", "ready"} =>
                    LastEvents("check")[1][2]
                        = length(Vec2Sub(futs[last.task].target_point,
                                         tracking.position)))
            /\ (LastEvents("start_time.elapsed") # << >> =>
                    /\ ~LastCheck
                    /\ LastSteps[6] = "check"
                    /\ LastSteps[7] = "start_time.elapsed")
            /\ (last.result = "Pending"
                    /\ Abs(LastEvents("angle_error")[1][2]) > HalfTurn \div 2
                    => LastEvents("check")[1][2]
                            = LastEvents("linear.update")[1][2]))

\* C16 witness: a tick on which the timeout had expired called check, with
\* a positive distance, before it completed on the timeout.
C16_Witness ==
    /\ last.fired
    /\ LastTimedOut
    /\ Len(LastEvents("check")) = 1
    /\ LastEvents("check")[1][2] > 0
    /\ ~LastCheck
    /\ last.result = "Ready"

\* C17: a poll made while the timer has not fired returns Pending and does
\* nothing else: it reads no tracking, calls neither check nor a controller
\* nor drive_arcade, and leaves the future as it was, except that the first
\* poll creates the scheduling state (the timer, start_time and prev_time
\* at the time of the call); the first poll is always such a poll.
C17_UnfiredPollIdle ==
    /\ []((last.task # 0 /\ ~last.fired) =>
            /\ last.result = "Pending"
            /\ last.events = << <<"sleep.poll", FALSE>> >>)
    /\ [][\A id \in TaskIds :
            (last' # last /\ last'.task = id) =>
                /\ (~IsSome(futs[id].state) => ~last'.fired)
                /\ (~last'.fired =>
                        /\ model' = model
                        /\ tracking' = tracking
                        /\ phase'[id] = "live"
                        /\ futs'[id] =
                            [futs[id] EXCEPT !.state =
                                IF IsSome(futs[id].state) THEN @
                                ELSE Some([sleep |-> now + SleepMs,
                                           start_time |-> now,
                                           prev_time |-> now])])]_vars

\* C17 witness: a task that has ticked was polled again before its timer
\* fired: the command of the tick is still the one the model has, and
\* prev_time is still the time of the tick.
C17_Witness ==
    /\ last.task # 0
    /\ ~last.fired
    /\ phase[last.task] = "live"
    /\ IsSome(model.cmd)
    /\ Unwrap(futs[last.task].state).prev_time
            > Unwrap(futs[last.task].state).start_time
    /\ Unwrap(futs[last.task].state).sleep > last.at

\* C18: drive_arcade(throttle, steer) of a Tank model calls drive_tank exactly
\* once, with desaturate([throttle + steer, throttle - steer], 1.0): both
\* powers have magnitude at most 1, and they are throttle + steer and
\* throttle - steer themselves when those are within [-1, 1]; drive_arcade
\* returns what drive_tank returned.
C18_ArcadeDesaturated ==
    calc.op = "drive_arcade" =>
        LET sum == calc.values[1] + calc.values[2]
            difference == calc.values[1] - calc.values[2]
            tank == calc.result.tank
        IN /\ Len(tank) = 1
           /\ tank[1] = desaturate(<<sum, difference>>, Milli)
           /\ Abs(tank[1][1]) <= Milli
           /\ Abs(tank[1][2]) <= Milli
           /\ (Abs(sum) <= Milli /\ Abs(difference) <= Milli
                    => tank[1] = <<sum, difference>>)
           /\ calc.result.result = (IF calc.ok THEN "Ok" ELSE "Err")

\* C18 witness: drive_arcade(1.0, 0.3) on a model whose drive_tank fails: the
\* powers (1.3, 0.7) are scaled to (1.0, 0.538) and the error is returned.
C18_Witness ==
    /\ calc.op = "drive_arcade"
    /\ calc.values = <<1000, 300>>
    /\ ~calc.ok
    /\ calc.result.tank = << <<1000, 538>> >>
    /\ calc.result.result = "Err"

\* C19: poll returns Ready only on a tick where check returned true or the
\* time since the first poll is strictly greater than the timeout; every
\* other tick re-arms the timer for SleepMs later, takes prev_time and returns
\* Pending; so a task without timeout completes only on a tick where check
\* returned true.
C19_ReadyOnlyWhenDone ==
    /\ (last.result = "Ready" => last.fired /\ (LastCheck \/ LastTimedOut))
    /\ ((last.fired /\ ~LastCheck /\ ~LastTimedOut) =>
            /\ last.result = "Pending"
            /\ LastEvents("sleep") = << <<"sleep", last.at + SleepMs>> >>
            /\ LastEvents("prev_time") = << <<"prev_time", last.at>> >>
            /\ (phase[last.task] = "live" =>
                    futs[last.task].state
                        = Some([sleep |-> last.at + SleepMs,
                                start_time |-> last.first_poll,
                                prev_time |-> last.at])))
    /\ ((last.result = "Ready" /\ ~IsSome(last.timeout)) => LastCheck)

\* C19 witness: a tick made exactly the timeout after the first poll, the
\* criteria not holding, went on with the timer re-armed.
C19_Witness ==
    /\ last.fired
    /\ IsSome(last.timeout)
    /\ last.at - last.first_poll = Unwrap(last.timeout)
    /\ ~LastCheck
    /\ last.result = "Pending"
    /\ phase[last.task] = "live"
    /\ Unwrap(futs[last.task].state).sleep = last.at + SleepMs

\* C20: the State is None until the first poll and is created once, on that
\* poll; start_time is the first poll's clock reading and never changes;
\* prev_time is never before start_time and only moves forward, to the clock
\* reading at the end of each tick that goes on; the dt given to the lateral
\* and to the linear controller is one value, the time since prev_time.
C20_StateTimes ==
    /\ [](\A id \in Active :
            /\ IsSome(futs[id].state) <=> IsSome(hist[id].first_poll)
            /\ IsSome(futs[id].state) =>
                    /\ Unwrap(futs[id].state).start_time
                            = Unwrap(hist[id].first_poll)
                    /\ Unwrap(futs[id].state).prev_time
                            >= Unwrap(futs[id].state).start_time)
    /\ [][\A id \in TaskIds :
            (/\ phase[id] = "live"
             /\ phase'[id] \in {"live", "ready"}
             /\ IsSome(futs[id].state))
            => LET st == Unwrap(futs[id].state)
                   st2 == Unwrap(futs'[id].state)
                   went_on == /\ last' # last
                              /\ last'.task = id
                              /\ last'.fired
                              /\ last'.result = "Pending"
                   dts == SelectSeq(last'.events,
                                    LAMBDA e : e[1] \in {"lateral.update",
                                                         "linear.update"})
               IN /\ IsSome(futs'[id].state)
                  /\ st2.start_time = st.start_time
                  /\ st2.prev_time >= st.prev_time
                  /\ st2.prev_time = IF went_on THEN now ELSE st.prev_time
                  /\ went_on =>
                        /\ Len(dts) = 2
                        /\ dts[1][4] = now - st.prev_time
                        /\ dts[2][4] = now - st.prev_time]_vars

\* C20 witness: a tick made two timer periods after the one before it gave
\* both controllers that time as dt and took the clock reading as prev_time,
\* start_time still being the first poll's.
C20_Witness ==
    /\ last.fired
    /\ last.result = "Pending"
    /\ phase[last.task] = "live"
    /\ LastEvents("lateral.update")[1][4] = 2 * SleepMs
    /\ LastEvents("linear.update")[1][4] = 2 * SleepMs
    /\ Unwrap(futs[last.task].state).prev_time = last.at
    /\ Unwrap(futs[last.task].state).start_time = last.first_poll
    /\ last.at - last.first_poll >= 3 * SleepMs

====
